---- MODULE Spec2Model ----
(***************************************************************************)
(* The RTMP ingest server of app/services/rtmp_server.py: the process-wide *)
(* stream registry, the per-connection controller, the ffmpeg transcoder   *)
(* lifecycle and the frame-extractor thread.                               *)
(*                                                                         *)
(* Connections are asyncio tasks on one event loop: a handler without an   *)
(* await runs to completion, so each handler is one action.  The extractor *)
(* (_read_ffmpeg_output) is a real thread and steps on its own.            *)
(***************************************************************************)
EXTENDS Integers, FiniteSets, Sequences, TLC

\* ---- bounds of the model ------------------------------------------------
MaxSess == 2
MaxPackets == 1
MaxFrames == 1
\* video messages counted in the specifications of the video path
MaxVideo == 3
\* seconds the clock runs past Epoch
MaxAge == 62
\* length of the payloads enumerated byte by byte
MaxLen == 2
\* the byte streams of the extractor: frames in a stream, bytes between the
\* markers of a frame, bytes of noise, bytes of an unstructured stream, bytes
\* one read returns
MaxK == 2
MaxBody == 1
MaxNoise == 2
MaxBytes == 5
MaxRead == 3
\* frames the extractors publish in the specification of the viewer
MaxViewFrames == 2

None == 0
\* controller.stream_key when no key is set (None; falsy like the empty name)
NoKey == ""
Keys == {"cam1", "cam2"}
Conns == {"c1", "c2"}
NoConn == ""
SessIds == 1..MaxSess

Absent == <<>>
Some(x) == <<x>>

VARIABLES
    streams,      \* _streams: stream key -> session object (None = key absent)
    sess,         \* the RTMPStream objects ever constructed, by identity
    proc,         \* OS state of the ffmpeg process spawned for each session
    nextSess,     \* identity of the next RTMPStream to be constructed
    ffmpeg_path,  \* core.ffmpeg._ffmpeg_path cache (TRUE = a path is cached)
    conn,         \* per connection: handler position and controller.stream_key
    worker,       \* per spawned process: its _read_ffmpeg_output thread
    adm,          \* a caller of remove_stream running on a thread of its own
    own,          \* history: the session the connection's last publish created,
                  \*   until a teardown deletes it from the registry
    sent,         \* history: video messages the connection delivered to it
    cleanups,     \* history: runs of an open connection's _cleanup since its last publish
    pub,          \* history: the connection whose publish constructed the session
    removed,      \* history: per key, the session the last remove_stream(key) returned
                  \*   True for, until the key is published again
    now,          \* time.time(), in seconds
    pipe,         \* per spawned process: the writes accepted by its stdin, in order
    video,        \* history: per session, the video messages counted into it
    flv,          \* _build_flv_tag: the arguments of a call and what it returned
    ext,          \* _read_ffmpeg_output on a byte stream: stdout, buffer, frames
    viewer,       \* one consumer of generate_mjpeg: its locals and its records
    wire,         \* per connection: the session's reader_chunk_size; history: how
                  \*   the handshake ended, the last message handle_message took
                  \*   that reached no session handler, the chunks written back
    lst,          \* one call of list_streams: its iterator and the list it builds
    stp           \* history: the last call of _stop_ffmpeg and what it did to the process

focus == <<flv, ext, viewer, lst, stp>>

vars == <<streams, sess, proc, nextSess, ffmpeg_path, conn, worker, adm,
          own, sent, cleanups, pub, removed, now, pipe, video, focus, wire>>

\* ---- the data model -----------------------------------------------------
RTMPStream(k, t) ==
    [stream_key |-> k, frame_count |-> 0, packet_count |-> 0,
     last_update |-> t, last_frame |-> None, ffmpeg_process |-> None,
     running |-> FALSE, flv_header_sent |-> FALSE, base_timestamp |-> 0]

NoStream == RTMPStream(NoKey, 0)

Heap == [streams |-> streams, sess |-> sess, proc |-> proc]

SetHeap(H) ==
    /\ streams' = H.streams
    /\ sess' = H.sess
    /\ proc' = H.proc

NoWorker == [pc |-> "none", key |-> NoKey, stream |-> None, frame_count |-> 0]

AdmIdle == [pc |-> "idle", key |-> NoKey, target |-> None, err |-> FALSE, raced |-> FALSE]

\* time.time() when the server starts
Epoch == 1

\* the staleness threshold of get_status, in seconds
StaleAfter == 30

\* time that passes between two steps
Delays == {StaleAfter - 1, StaleAfter, StaleAfter + 1}

\* no call of _build_flv_tag has been made
NoCall == [pc |-> "none", tag_type |-> 0, timestamp |-> 0, data |-> <<>>, tag |-> <<>>]

\* no byte stream is being extracted: what is left of the transcoder's stdout,
\* the thread's buffer and frame_count, the session's last_frame (<<>> = None)
\* and frame_count; history: the frames published, the frames put in, and
\* whether a read ended between the two bytes of a marker
NoExtractor ==
    [pc |-> "none", stdout |-> <<>>, buffer |-> <<>>, frame_count |-> 0,
     last_frame |-> <<>>, stream_frame_count |-> 0, frames |-> <<>>,
     shaped |-> FALSE, expect |-> <<>>, split |-> FALSE]

\* generate_mjpeg has not been called
NoViewer ==
    [pc |-> "none", key |-> NoKey, stream |-> None, last_frame |-> None,
     no_frame_count |-> 0, records |-> <<>>]

\* no message has been handled
NoMessage == [kind |-> "none"]

\* a connection just accepted: SessionManager(reader, writer), nothing read,
\* reader_chunk_size not assigned by the controller (None = the session's own)
NoWire ==
    [handshake |-> "pending", reader_chunk_size |-> None,
     last |-> NoMessage, out |-> <<>>, handled |-> 0]

\* list_streams has not been called: the keys its iterator has yet to yield,
\* the size of _streams when the iterator was made, the key in hand, the list
\* built so far; history: the keys registered at the call, whether it raised
NoList ==
    [pc |-> "none", keys |-> <<>>, size |-> 0, key |-> NoKey, ret |-> <<>>,
     at |-> {}, raised |-> FALSE]

\* _stop_ffmpeg has not been called: the key and the session it found, how the
\* process took the request, the calls made on the Popen object, calls so far
NoStop == [key |-> NoKey, target |-> None, outcome |-> "none", calls |-> <<>>, n |-> 0]

InitServer ==
    /\ streams = [k \in Keys |-> None]
    /\ sess = [s \in SessIds |-> NoStream]
    /\ proc = [s \in SessIds |-> "none"]
    /\ nextSess = 1
    /\ ffmpeg_path = FALSE
    /\ conn = [c \in Conns |-> [st |-> "handshake", stream_key |-> NoKey]]
    /\ worker = [s \in SessIds |-> NoWorker]
    /\ adm = AdmIdle
    /\ own = [c \in Conns |-> None]
    /\ sent = [c \in Conns |-> 0]
    /\ cleanups = [c \in Conns |-> 0]
    /\ pub = [s \in SessIds |-> NoConn]
    /\ removed = [k \in Keys |-> None]
    /\ now = Epoch
    /\ pipe = [s \in SessIds |-> <<>>]
    /\ video = [s \in SessIds |-> <<>>]
    /\ wire = [c \in Conns |-> NoWire]

Init ==
    /\ InitServer
    /\ stp = NoStop
    /\ lst = NoList
    /\ flv = NoCall
    /\ ext = NoExtractor
    /\ viewer = NoViewer

\* ---- transcoder lifecycle ------------------------------------------------
\* Popen.terminate(), wait(timeout=5), kill() when the wait times out or
\* terminate raised: either way the process is not running afterwards
Terminate(st) == IF st = "running" THEN "dead" ELSE st

StopFfmpeg(H, k) ==
    LET s == H.streams[k] IN
    IF s = None THEN H
    ELSE LET p == H.sess[s].ffmpeg_process IN
         IF p = None
         THEN [H EXCEPT !.sess[s].running = FALSE]
         ELSE [H EXCEPT !.sess[s].running = FALSE,
                        !.sess[s].ffmpeg_process = None,
                        !.proc[p] = Terminate(@)]

\* if key in _streams: del _streams[key]
DelStream(H, k) == [H EXCEPT !.streams[k] = None]

\* CameraRTMPController._cleanup, on the registry
Cleanup(H, sk) ==
    IF sk = NoKey THEN H ELSE DelStream(StopFfmpeg(H, sk), sk)

\* a _cleanup that forgets to reset self.stream_key
CleanupKeyStale(sk) == sk

\* the controller's stream_key after _cleanup
CleanupKey(sk) == NoKey

\* _start_ffmpeg: outcome is what get_ffmpeg_cmd and Popen do
StartFfmpeg(H, k, outcome) ==
    LET s == H.streams[k] IN
    IF s = None \/ outcome # "spawned" THEN H
    ELSE [H EXCEPT !.sess[s].ffmpeg_process = s,
                   !.sess[s].running = TRUE,
                   !.proc[s] = "running"]

\* get_ffmpeg_cmd: a cached path is returned; otherwise the path is looked up
\* or downloaded, and download_ffmpeg raises when it cannot obtain it
SpawnOutcomes ==
    IF ffmpeg_path THEN {"spawned", "popen_raises"}
    ELSE {"spawned", "popen_raises", "cmd_raises"}

\* sessions a teardown of key k deletes from the registry
Deleted(H, k) == IF k # NoKey /\ H.streams[k] # None THEN {H.streams[k]} ELSE {}

\* history: connection c ran _cleanup (c = NoConn: an administrative removal),
\* which deleted the sessions D
Teardown(c, D) ==
    /\ own' = [x \in Conns |-> IF x = c \/ own[x] \in D THEN None ELSE own[x]]
    /\ sent' = [x \in Conns |-> IF x = c \/ own[x] \in D THEN 0 ELSE sent[x]]

\* ---- FLV muxing -----------------------------------------------------------
\* three bytes, least significant first
Le24(n) == <<n % 256, (n \div 256) % 256, (n \div 65536) % 256>>

\* bytes([(n >> 16) & 0xFF, (n >> 8) & 0xFF, n & 0xFF])
Be24(n) == <<(n \div 65536) % 256, (n \div 256) % 256, n % 256>>

\* bytes([(n >> 24) & 0xFF, (n >> 16) & 0xFF, (n >> 8) & 0xFF, n & 0xFF])
Be32(n) == <<(n \div 16777216) % 256>> \o Be24(n)

\* b'FLV\x01' + b'\x01' + b'\x00\x00\x00\x09' + b'\x00\x00\x00\x00'
_build_flv_header == <<70, 76, 86, 1>> \o <<1>> \o <<0, 0, 0, 9>> \o <<0, 0, 0, 0>>

_build_flv_tag(tag_type, timestamp, data) ==
    LET data_size == Len(data)
        prev_tag_size == 11 + data_size
    IN <<tag_type>>
       \o Be24(data_size)
       \o Be24(timestamp)
       \o <<(timestamp \div 16777216) % 256>>
       \o <<0, 0, 0>>
       \o data
       \o Be32(prev_tag_size)

\* a payload of n zero bytes
Zeros(n) == [i \in 1..n |-> 0]

\* arguments of _build_flv_tag: audio, video and script tags, timestamps at
\* the byte boundaries, payloads up to MaxLen bytes and at the boundaries of
\* the length field
TagTypes == {8, 9, 18}

FlvTimestamps == {0, 1, 255, 256, 65535, 65536, 16777215, 16777216, 2147483647}

Payloads ==
    UNION {[1..n -> {0, 255}] : n \in 0..MaxLen} \cup {Zeros(256), Zeros(65536)}

BuildFlvTag ==
    /\ flv.pc = "call"
    /\ flv' = [flv EXCEPT !.pc = "done",
                          !.tag = _build_flv_tag(flv.tag_type, flv.timestamp, flv.data)]
    /\ UNCHANGED <<streams, sess, proc, nextSess, ffmpeg_path, conn, worker, adm,
                   own, sent, cleanups, pub, removed, now, pipe, video, ext, viewer,
                   wire, lst, stp>>

\* ---- connection handler --------------------------------------------------
HandshakeOk(c) ==
    /\ conn[c].st = "handshake"
    /\ conn' = [conn EXCEPT ![c].st = "open"]
    /\ UNCHANGED <<streams, sess, proc, nextSess, ffmpeg_path, worker, adm,
                   own, sent, cleanups, pub, removed>>
    /\ UNCHANGED <<now, pipe, video, focus, wire>>

\* the task's finally block (cleanup(session), writer.close()), reached with
\* controller.stream_key = sk
EndConnection(c, H, sk) ==
    /\ SetHeap(Cleanup(H, sk))
    /\ conn' = [conn EXCEPT ![c] = [st |-> "closed", stream_key |-> CleanupKey(sk)]]
    /\ Teardown(c, Deleted(H, sk))
    /\ cleanups' = [cleanups EXCEPT ![c] = 0]
    /\ adm' = IF adm.pc \in {"stop", "del"} /\ sk = adm.key
              THEN [adm EXCEPT !.raced = TRUE] ELSE adm

\* session.handshake() raises: except, then finally
HandshakeFail(c) ==
    /\ conn[c].st = "handshake"
    /\ EndConnection(c, Heap, conn[c].stream_key)
    /\ UNCHANGED <<nextSess, ffmpeg_path, worker, pub, removed>>
    /\ UNCHANGED <<now, pipe, video, focus, wire>>

\* the registry after line 138: _streams[key] = RTMPStream(key)
Register(H, k, n) == [H EXCEPT !.streams[k] = n, !.sess[n] = RTMPStream(k, now)]

\* on_ns_publish; an exception of get_ffmpeg_cmd leaves _start_ffmpeg and the
\* handler and ends the connection task
OnNsPublish(c, k, outcome) ==
    /\ conn[c].st = "open"
    /\ nextSess <= MaxSess
    /\ outcome \in SpawnOutcomes
    /\ LET n == nextSess
           H1 == Register(Heap, k, n)
       IN /\ nextSess' = n + 1
          /\ pub' = [pub EXCEPT ![n] = c]
          /\ removed' = [removed EXCEPT ![k] = None]
          /\ IF outcome = "cmd_raises"
             THEN /\ EndConnection(c, H1, k)
                  /\ UNCHANGED <<ffmpeg_path, worker>>
             ELSE /\ SetHeap(StartFfmpeg(H1, k, outcome))
                  /\ conn' = [conn EXCEPT ![c].stream_key = k]
                  /\ ffmpeg_path' = TRUE
                  /\ worker' = IF outcome = "spawned"
                               THEN [worker EXCEPT ![n] = [NoWorker EXCEPT !.pc = "start", !.key = k]]
                               ELSE worker
                  /\ own' = [own EXCEPT ![c] = n]
                  /\ sent' = [sent EXCEPT ![c] = 0]
                  /\ cleanups' = [cleanups EXCEPT ![c] = 0]
                  /\ UNCHANGED adm
    /\ UNCHANGED <<now, pipe, video, focus, wire>>

\* the session object after on_video_message has counted one message
VideoUpdate(st) == [st EXCEPT !.packet_count = @ + 1, !.last_update = now]

\* stdin is a buffered writer: the 13 bytes of the header go into its empty
\* buffer.  While the transcoder runs the pipe takes every write; once it is
\* gone the pipe is broken, and the write of the tag (when it overflows the
\* buffer) or the flush raises
WriteOutcomes(st) ==
    IF st.ffmpeg_process # None /\ proc[st.ffmpeg_process] # "running"
    THEN {"raise_tag", "raise_flush"}
    ELSE {"ok"}

\* a relative timestamp that takes the distance to the baseline, unclamped
RelativeTsAbs(timestamp, base) ==
    IF timestamp - base < 0 THEN base - timestamp ELSE timestamp - base

\* ts = message.timestamp - stream._base_timestamp; if ts < 0: ts = 0
RelativeTs(timestamp, base) == IF timestamp - base < 0 THEN 0 ELSE timestamp - base

\* a write path that drops the process handle when a write raises
WriteVideoUnplug(st, w, m, o) ==
    [stream |-> IF o = "ok" THEN st ELSE [st EXCEPT !.ffmpeg_process = None],
     writes |-> w]

\* a write path that sends the container header ahead of every tag
WriteVideoRepeatHeader(st, w, m, o) ==
    [stream |-> [st EXCEPT !.flv_header_sent = TRUE],
     writes |-> w \o <<_build_flv_header, _build_flv_tag(9, 0, m.payload)>>]

\* the try block of on_video_message: session st, the writes w its stdin has
\* accepted, message m; the exception of a failed write is swallowed
WriteVideo(st, w, m, o) ==
    LET first == ~st.flv_header_sent
        st1 == IF first
               THEN [st EXCEPT !.flv_header_sent = TRUE,
                               !.base_timestamp = m.timestamp]
               ELSE st
        w1 == IF first THEN Append(w, _build_flv_header) ELSE w
        ts == RelativeTs(m.timestamp, st1.base_timestamp)
    IN IF o = "raise_tag" THEN [stream |-> st1, writes |-> w1]
       ELSE [stream |-> st1, writes |-> Append(w1, _build_flv_tag(9, ts, m.payload))]

RECURSIVE SumPackets(_)
SumPackets(n) == IF n = 0 THEN 0 ELSE sess[n].packet_count + SumPackets(n - 1)

\* on_video_message for message m, at most max messages being counted
VideoMessage(c, m, o, max) ==
    /\ conn[c].st = "open"
    /\ LET sk == conn[c].stream_key IN
       IF sk = NoKey \/ streams[sk] = None
       THEN o = "ok" /\ UNCHANGED <<sess, sent, pipe, video>>
       ELSE LET s == streams[sk]
                st == VideoUpdate(sess[s])
                p == st.ffmpeg_process
            IN /\ SumPackets(MaxSess) < max
               /\ o \in WriteOutcomes(st)
               /\ sent' = [sent EXCEPT ![c] = IF own[c] = None THEN @ ELSE @ + 1]
               /\ video' = [video EXCEPT ![s] =
                               Append(@, [timestamp |-> m.timestamp,
                                          payload |-> m.payload,
                                          wrote |-> p # None /\ o \in {"ok", "raise_flush"}])]
               /\ IF p = None
                  THEN /\ sess' = [sess EXCEPT ![s] = st]
                       /\ UNCHANGED pipe
                  ELSE LET r == WriteVideo(st, pipe[p], m, o) IN
                       /\ sess' = [sess EXCEPT ![s] = r.stream]
                       /\ pipe' = [pipe EXCEPT ![p] = r.writes]
    /\ UNCHANGED <<streams, proc, nextSess, ffmpeg_path, conn, worker, adm,
                   own, cleanups, pub, removed>>
    /\ UNCHANGED <<now, focus, wire>>

OnVideoMessage(c, m, o) == VideoMessage(c, m, o, MaxPackets)

\* NSCloseStream / NSDeleteStream: _cleanup, the connection stays open
CloseStream(c) ==
    /\ conn[c].st = "open"
    /\ LET sk == conn[c].stream_key IN
       /\ SetHeap(Cleanup(Heap, sk))
       /\ conn' = [conn EXCEPT ![c].stream_key = CleanupKey(sk)]
       /\ Teardown(c, Deleted(Heap, sk))
       /\ cleanups' = [cleanups EXCEPT ![c] = IF @ < 2 THEN @ + 1 ELSE @]
       /\ adm' = IF adm.pc \in {"stop", "del"} /\ sk = adm.key
                 THEN [adm EXCEPT !.raced = TRUE] ELSE adm
    /\ UNCHANGED <<nextSess, ffmpeg_path, worker, pub, removed>>
    /\ UNCHANGED <<now, pipe, video, focus, wire>>

\* the chunk loop ends (StreamClosedException or any other exception)
Disconnect(c) ==
    /\ conn[c].st = "open"
    /\ EndConnection(c, Heap, conn[c].stream_key)
    /\ UNCHANGED <<nextSess, ffmpeg_path, worker, pub, removed>>
    /\ UNCHANGED <<now, pipe, video, focus, wire>>

\* ---- the dispatcher --------------------------------------------------------
\* a message MessageFactory.from_chunk hands to handle_message: its class, and
\* the fields the handlers read (tid: the number the payload holds after the
\* command name, <<>> when the payload holds none that decodes)
Msg(kind) ==
    [kind |-> kind, publishing_name |-> NoKey, timestamp |-> 0, payload |-> <<>>,
     chunk_size |-> 0, command_name |-> "", tid |-> <<>>, chunk_id |-> 0]

\* the message classes that carry a command_name and are none of the classes
\* handle_message tests for
Command(name, tid, chunk_id) ==
    [Msg("Command") EXCEPT !.command_name = name, !.tid = tid, !.chunk_id = chunk_id]

\* a dispatcher that hands audio to the video handler
RouteAudioAsVideo(m) ==
    CASE m.kind = "NCConnect" -> "on_nc_connect"
      [] m.kind = "NCCreateStream" -> "on_nc_create_stream"
      [] m.kind = "NSPublish" -> "on_ns_publish"
      [] m.kind \in {"VideoMessage", "AudioMessage"} -> "on_video_message"
      [] m.kind = "MetaDataMessage" -> "pass"
      [] m.kind = "SetChunkSize" -> "reader_chunk_size"
      [] m.kind = "WindowAcknowledgementSize" -> "pass"
      [] m.kind \in {"NSCloseStream", "NSDeleteStream"} -> "_cleanup"
      [] OTHER -> "on_unknown_message"

\* handle_message: the isinstance chain, first match
Route(m) ==
    CASE m.kind = "NCConnect" -> "on_nc_connect"
      [] m.kind = "NCCreateStream" -> "on_nc_create_stream"
      [] m.kind = "NSPublish" -> "on_ns_publish"
      [] m.kind = "VideoMessage" -> "on_video_message"
      [] m.kind = "AudioMessage" -> "pass"
      [] m.kind = "MetaDataMessage" -> "pass"
      [] m.kind = "SetChunkSize" -> "reader_chunk_size"
      [] m.kind = "WindowAcknowledgementSize" -> "pass"
      [] m.kind \in {"NSCloseStream", "NSDeleteStream"} -> "_cleanup"
      [] OTHER -> "on_unknown_message"

\* return int(tid) if tid else 0; except: return 0
_parse_transaction_id(m) == IF m.tid = <<>> THEN 0 ELSE m.tid[1]

\* a response that always carries transaction id 0
ResultResponseZero(chunk_id, transaction_id) ==
    [chunk_type |-> 0, chunk_id |-> chunk_id, timestamp |-> 0, msg_type_id |-> 20,
     msg_stream_id |-> 0, payload |-> <<"_result", 0, None, None>>]

\* the Chunk of _create_result_response; payload: the AMF0 values serialised
_create_result_response(chunk_id, transaction_id) ==
    [chunk_type |-> 0, chunk_id |-> chunk_id, timestamp |-> 0, msg_type_id |-> 20,
     msg_stream_id |-> 0, payload |-> <<"_result", transaction_id, None, None>>]

PrepCommands == {"releaseStream", "FCPublish"}

\* the chunks on_unknown_message writes for message m
UnknownResponses(m) ==
    IF m.kind = "Command" /\ m.command_name \in PrepCommands
    THEN <<_create_result_response(m.chunk_id, _parse_transaction_id(m))>>
    ELSE <<>>

\* what handle_message leaves alone when no handler of the session runs
DispatchFrame == <<streams, sess, proc, nextSess, ffmpeg_path, conn, worker, adm,
                   own, sent, cleanups, pub, removed, now, pipe, video, focus>>

\* a handshake whose failure is logged and the chunk loop entered all the same
HandshakeSwallow(c, ok) ==
    /\ conn[c].st = "handshake"
    /\ wire' = [wire EXCEPT ![c].handshake = IF ok THEN "ok" ELSE "failed"]
    /\ conn' = [conn EXCEPT ![c].st = "open"]
    /\ UNCHANGED <<streams, sess, proc, nextSess, ffmpeg_path, worker, adm,
                   own, sent, cleanups, pub, removed, now, pipe, video, focus>>

\* client_callback up to the chunk loop: await session.handshake() returns and
\* the loop is entered, or it raises and the finally block runs
Handshake(c, ok) ==
    /\ conn[c].st = "handshake"
    /\ wire' = [wire EXCEPT ![c].handshake = IF ok THEN "ok" ELSE "failed"]
    /\ IF ok
       THEN /\ conn' = [conn EXCEPT ![c].st = "open"]
            /\ UNCHANGED <<streams, sess, proc, adm, own, sent, cleanups>>
       ELSE EndConnection(c, Heap, conn[c].stream_key)
    /\ UNCHANGED <<nextSess, ffmpeg_path, worker, pub, removed, now, pipe, video,
                   focus>>

\* on_unknown_message: the response is written, then drain() is awaited; a
\* drain that raises (the peer is gone) ends the connection task
OnUnknownMessage(c, m, drain) ==
    LET rs == UnknownResponses(m) IN
    /\ drain \in (IF rs = <<>> THEN {"ok"} ELSE {"ok", "drain_raises"})
    /\ wire' = [wire EXCEPT ![c].last = m, ![c].out = @ \o rs]
    /\ IF drain = "ok"
       THEN UNCHANGED DispatchFrame
       ELSE /\ EndConnection(c, Heap, conn[c].stream_key)
            /\ UNCHANGED <<nextSess, ffmpeg_path, worker, pub, removed, now, pipe,
                           video, focus>>

\* handle_message for message m, at most max chunks being written back
HandleMessage(c, m, spawn, o, max) ==
    /\ conn[c].st = "open"
    /\ LET h == Route(m) IN
       \/ /\ h = "on_ns_publish"
          /\ o = "ok"
          /\ OnNsPublish(c, m.publishing_name, spawn)
       \/ /\ h = "on_video_message"
          /\ spawn = "spawned"
          /\ OnVideoMessage(c, [timestamp |-> m.timestamp, payload |-> m.payload], o)
       \/ /\ h = "_cleanup"
          /\ spawn = "spawned" /\ o = "ok"
          /\ CloseStream(c)
       \/ /\ h \in {"on_nc_connect", "on_nc_create_stream", "pass"}
          /\ spawn = "spawned" /\ o = "ok"
          /\ wire' = [wire EXCEPT ![c].last = m]
          /\ UNCHANGED DispatchFrame
       \/ /\ h = "reader_chunk_size"
          /\ spawn = "spawned" /\ o = "ok"
          /\ wire' = [wire EXCEPT ![c].last = m, ![c].reader_chunk_size = m.chunk_size]
          /\ UNCHANGED DispatchFrame
       \/ /\ h = "on_unknown_message"
          /\ spawn = "spawned"
          /\ Len(wire[c].out) + Len(UnknownResponses(m)) <= max
          /\ OnUnknownMessage(c, m, o)

\* ---- RTMPServer API, called on the event loop ----------------------------
get_frame(k) ==
    IF streams[k] = None \/ sess[streams[k]].last_frame = None
    THEN Absent ELSE Some(sess[streams[k]].last_frame)

\* a get_status that builds a default status for a key it does not find
get_status_default(k) ==
    LET st == IF streams[k] = None THEN RTMPStream(k, 0) ELSE sess[streams[k]] IN
    Some([stream_key |-> st.stream_key, frame_count |-> st.frame_count,
          packet_count |-> st.packet_count, is_online |-> FALSE,
          last_update |-> st.last_update])

\* an is_online that counts the threshold itself as fresh
is_online_inclusive(st, t) ==
    IF st.last_update # 0 THEN t - st.last_update <= StaleAfter ELSE FALSE

\* (time.time() - stream.last_update) < 30 if stream.last_update else False
is_online(st, t) ==
    IF st.last_update # 0 THEN t - st.last_update < StaleAfter ELSE FALSE

get_status(k) ==
    IF streams[k] = None THEN Absent
    ELSE LET st == sess[streams[k]] IN
         Some([stream_key |-> st.stream_key, frame_count |-> st.frame_count,
               packet_count |-> st.packet_count, is_online |-> is_online(st, now),
               last_update |-> st.last_update])

list_streams == {get_status(k) : k \in {x \in Keys : streams[x] # None}}

\* the three read calls assign nothing
GetFrame(k) == UNCHANGED vars

GetStatus(k) == UNCHANGED vars

ListStreams == UNCHANGED vars

\* a remove_stream that deletes the key before it stops the transcoder
RemoveBodyDelFirst(H, k) == StopFfmpeg(DelStream(H, k), k)

\* a remove_stream that stops the transcoder and forgets the del
RemoveBodyNoDel(H, k) == StopFfmpeg(H, k)

\* the body of remove_stream for a registered key: lines 455-456
RemoveBody(H, k) == DelStream(StopFfmpeg(H, k), k)

\* remove_stream, on the registry: the registry it leaves and what it returns
remove_stream(H, k) ==
    IF H.streams[k] # None
    THEN [heap |-> RemoveBody(H, k), ret |-> TRUE]
    ELSE [heap |-> H, ret |-> FALSE]

RemoveStream(k) ==
    LET r == remove_stream(Heap, k) IN
    /\ SetHeap(r.heap)
    /\ IF r.ret
       THEN /\ Teardown(NoConn, {streams[k]})
            /\ removed' = [removed EXCEPT ![k] = streams[k]]
       ELSE UNCHANGED <<own, sent, removed>>
    /\ UNCHANGED <<nextSess, ffmpeg_path, conn, worker, adm, cleanups, pub>>
    /\ UNCHANGED <<now, pipe, video, focus, wire>>

\* a stop that returns after the first key
StopAllFirst(H, ks) ==
    IF ks = {} THEN H
    ELSE StopFfmpeg(H, CHOOSE x \in ks : TRUE)

\* for key in list(_streams.keys()): _stop_ffmpeg(key)
RECURSIVE StopAll(_, _)
StopAll(H, ks) ==
    IF ks = {} THEN H
    ELSE LET k == CHOOSE x \in ks : TRUE IN
         StopAll(StopFfmpeg(H, k), ks \ {k})

Stop ==
    /\ \E k \in Keys : streams[k] # None /\ sess[streams[k]].running
    /\ SetHeap(StopAll(Heap, {k \in Keys : streams[k] # None}))
    /\ UNCHANGED <<nextSess, ffmpeg_path, conn, worker, adm, own, sent,
                   cleanups, pub, removed>>
    /\ UNCHANGED <<now, pipe, video, focus, wire>>

\* ---- the transcoder and its extractor thread ------------------------------
\* ffmpeg ends by itself (bad input, crash)
ProcExit(p) ==
    /\ proc[p] = "running"
    /\ proc' = [proc EXCEPT ![p] = "dead"]
    /\ UNCHANGED <<streams, sess, nextSess, ffmpeg_path, conn, worker, adm,
                   own, sent, cleanups, pub, removed>>
    /\ UNCHANGED <<now, pipe, video, focus, wire>>

\* while stream._running: chunk = stream.ffmpeg_process.stdout.read(4096)
\* is entered (a cleared handle raises, which ends the loop as well)
Reads(s) == sess[s].running /\ sess[s].ffmpeg_process # None

\* _read_ffmpeg_output, lines 291-299: the thread binds the session now
\* registered under its key and blocks in the first read
WorkerStart(n) ==
    /\ worker[n].pc = "start"
    /\ LET s == streams[worker[n].key] IN
       worker' = IF s = None \/ sess[s].ffmpeg_process = None \/ ~Reads(s)
                 THEN [worker EXCEPT ![n].pc = "done"]
                 ELSE [worker EXCEPT ![n].pc = "read", ![n].stream = s]
    /\ UNCHANGED <<streams, sess, proc, nextSess, ffmpeg_path, conn, adm,
                   own, sent, cleanups, pub, removed>>
    /\ UNCHANGED <<now, pipe, video, focus, wire>>

\* the session object after the extractor has cut one frame from its buffer
FrameUpdate(st, count) ==
    [st EXCEPT !.last_frame = count + 1, !.frame_count = count]

RECURSIVE SumFrames(_)
SumFrames(n) == IF n = 0 THEN 0 ELSE worker[n].frame_count + SumFrames(n - 1)

\* the blocked read returns: bytes that complete a frame, or b'' at end of
\* file; after a frame the loop condition is evaluated and the next read entered
WorkerFrames(n, got, max) ==
    /\ worker[n].pc = "read"
    /\ LET s == worker[n].stream
           w == worker[n]
       IN \/ /\ got = "frame"
             /\ SumFrames(MaxSess) < max
             /\ sess' = [sess EXCEPT ![s] = FrameUpdate(@, w.frame_count)]
             /\ worker' = [worker EXCEPT ![n].pc = IF Reads(s) THEN "read" ELSE "done",
                                         ![n].frame_count = @ + 1]
          \/ /\ got = "eof"
             /\ proc[s] # "running"
             /\ worker' = [worker EXCEPT ![n].pc = "done"]
             /\ UNCHANGED sess
    /\ UNCHANGED <<streams, proc, nextSess, ffmpeg_path, conn, adm,
                   own, sent, cleanups, pub, removed>>
    /\ UNCHANGED <<now, pipe, video, focus, wire>>

WorkerRead(n, got) == WorkerFrames(n, got, MaxFrames)

\* ---- generate_mjpeg, consumed by one viewer ------------------------------
\* consecutive polls without a frame after which the generator ends
NoFrameLimit == 200

\* a generator that never gives up
GaveUpNever(count) == FALSE

\* if no_frame_count > 200: break
GaveUp(count) == count > NoFrameLimit

ViewerFrame == <<streams, sess, proc, nextSess, ffmpeg_path, conn, worker, adm,
                 own, sent, cleanups, pub, removed, now, pipe, video, flv, ext, wire, lst, stp>>

\* the first next() on generate_mjpeg(k)
ViewerOpen(k) ==
    /\ viewer.pc = "none"
    /\ viewer' = [viewer EXCEPT !.pc = "poll", !.key = k]
    /\ UNCHANGED ViewerFrame

\* a poll that keeps waiting for a key that is absent
ViewerPollWaits ==
    /\ viewer.pc = "poll"
    /\ LET s == streams[viewer.key] IN
       viewer' =
           IF s = None THEN [viewer EXCEPT !.pc = "poll", !.stream = None]
           ELSE IF sess[s].last_frame # None
           THEN [viewer EXCEPT !.pc = "compare", !.stream = s, !.no_frame_count = 0]
           ELSE [viewer EXCEPT !.stream = s,
                               !.no_frame_count = @ + 1,
                               !.pc = IF GaveUp(viewer.no_frame_count + 1)
                                      THEN "done" ELSE "poll"]
    /\ UNCHANGED ViewerFrame

\* after the sleep: stream = _streams.get(stream_key); if stream.last_frame
ViewerPoll ==
    /\ viewer.pc = "poll"
    /\ LET s == streams[viewer.key] IN
       viewer' =
           IF s = None THEN [viewer EXCEPT !.pc = "done", !.stream = None]
           ELSE IF sess[s].last_frame # None
           THEN [viewer EXCEPT !.pc = "compare", !.stream = s, !.no_frame_count = 0]
           ELSE [viewer EXCEPT !.stream = s,
                               !.no_frame_count = @ + 1,
                               !.pc = IF GaveUp(viewer.no_frame_count + 1)
                                      THEN "done" ELSE "poll"]
    /\ UNCHANGED ViewerFrame

\* if stream.last_frame != last_frame
ViewerCompare ==
    /\ viewer.pc = "compare"
    /\ viewer' = [viewer EXCEPT !.pc = IF sess[viewer.stream].last_frame # viewer.last_frame
                                       THEN "assign" ELSE "poll"]
    /\ UNCHANGED ViewerFrame

\* last_frame = stream.last_frame
ViewerAssign ==
    /\ viewer.pc = "assign"
    /\ viewer' = [viewer EXCEPT !.pc = "yield",
                                !.last_frame = sess[viewer.stream].last_frame]
    /\ UNCHANGED ViewerFrame

\* yield (b'--frame...' + stream.last_frame + b'\r\n'): the attribute is read
\* again to build the record
ViewerYield ==
    /\ viewer.pc = "yield"
    /\ viewer' = [viewer EXCEPT !.pc = "poll",
                                !.records = Append(@, sess[viewer.stream].last_frame)]
    /\ UNCHANGED ViewerFrame

\* ---- remove_stream called from a thread that is not the event loop --------
\* line 454: if stream_key in _streams
AdmCheck(k) ==
    /\ adm.pc = "idle"
    /\ IF streams[k] # None
       THEN adm' = [adm EXCEPT !.pc = "stop", !.key = k, !.target = streams[k]]
       ELSE UNCHANGED adm
    /\ UNCHANGED <<streams, sess, proc, nextSess, ffmpeg_path, conn, worker,
                   own, sent, cleanups, pub, removed>>
    /\ UNCHANGED <<now, pipe, video, focus, wire>>

\* line 455: _stop_ffmpeg(stream_key), the thread blocked in wait(timeout=5)
AdmStop ==
    /\ adm.pc = "stop"
    /\ SetHeap(StopFfmpeg(Heap, adm.key))
    /\ adm' = [adm EXCEPT !.pc = "del"]
    /\ UNCHANGED <<nextSess, ffmpeg_path, conn, worker, own, sent, cleanups, pub,
                   removed>>
    /\ UNCHANGED <<now, pipe, video, focus, wire>>

\* line 456: del _streams[stream_key] raises KeyError for an absent key
AdmDel ==
    /\ adm.pc = "del"
    /\ IF streams[adm.key] = None
       THEN /\ adm' = [adm EXCEPT !.pc = "done", !.err = TRUE]
            /\ UNCHANGED <<streams, own, sent, removed>>
       ELSE /\ streams' = [streams EXCEPT ![adm.key] = None]
            /\ Teardown(NoConn, {streams[adm.key]})
            /\ removed' = [removed EXCEPT ![adm.key] = streams[adm.key]]
            /\ adm' = [adm EXCEPT !.pc = "done"]
    /\ UNCHANGED <<sess, proc, nextSess, ffmpeg_path, conn, worker, cleanups, pub>>
    /\ UNCHANGED <<now, pipe, video, focus, wire>>

\* ---- list_streams, interleaved with the other threads ------------------------
\* the keys of _streams
Registry == {k \in Keys : streams[k] # None}

\* the keys of a dict in the order its iterator yields them
KeySeq(S) == CHOOSE q \in [1..Cardinality(S) -> S] : \A k \in S : \E i \in DOMAIN q : q[i] = k

ListFrame == <<streams, sess, proc, nextSess, ffmpeg_path, conn, worker, adm,
               own, sent, cleanups, pub, removed, now, pipe, video, flv, ext,
               viewer, wire, stp>>

\* for key in _streams.keys(): the iterator is made
ListBegin ==
    /\ lst.pc = "none"
    /\ lst' = [lst EXCEPT !.pc = "next", !.keys = KeySeq(Registry),
                          !.size = Cardinality(Registry), !.at = Registry]
    /\ UNCHANGED ListFrame

\* next() on the iterator: RuntimeError when the dict has changed size, the
\* list returned when the keys are exhausted, else the next key
ListNext ==
    /\ lst.pc = "next"
    /\ lst' = IF Cardinality(Registry) # lst.size
              THEN [lst EXCEPT !.pc = "done", !.raised = TRUE]
              ELSE IF lst.keys = <<>> THEN [lst EXCEPT !.pc = "done"]
              ELSE [lst EXCEPT !.pc = "get", !.key = Head(lst.keys), !.keys = Tail(lst.keys)]
    /\ UNCHANGED ListFrame

\* self.get_status(key), appended to the list
ListGet ==
    /\ lst.pc = "get"
    /\ lst' = [lst EXCEPT !.pc = "next", !.ret = Append(@, get_status(lst.key))]
    /\ UNCHANGED ListFrame

\* ---- _stop_ffmpeg, call by call ---------------------------------------------
\* how the process of the session under key k takes terminate() and
\* wait(timeout=5): a process that has exited is waited for at once
StopOutcomes(H, k) ==
    LET s == H.streams[k] IN
    IF s = None \/ H.sess[s].ffmpeg_process = None THEN {"none"}
    ELSE IF H.proc[H.sess[s].ffmpeg_process] = "running"
    THEN {"exits", "timeout", "terminate_raises"}
    ELSE {"exits"}

\* a stop that kills in a finally clause
StopCallsFinally(outcome) ==
    CASE outcome = "exits" -> <<"terminate", "wait", "kill">>
      [] outcome = "timeout" -> <<"terminate", "wait", "kill">>
      [] outcome = "terminate_raises" -> <<"terminate", "kill">>
      [] OTHER -> <<>>

\* try: terminate(); wait(timeout=5)  except: kill()
StopCalls(outcome) ==
    CASE outcome = "exits" -> <<"terminate", "wait">>
      [] outcome = "timeout" -> <<"terminate", "wait", "kill">>
      [] outcome = "terminate_raises" -> <<"terminate", "kill">>
      [] OTHER -> <<>>

\* _stop_ffmpeg(k), at most max calls being followed
StopCall(k, outcome, max) ==
    /\ stp.n < max
    /\ outcome \in StopOutcomes(Heap, k)
    /\ SetHeap(StopFfmpeg(Heap, k))
    /\ stp' = [key |-> k, target |-> streams[k], outcome |-> outcome,
               calls |-> StopCalls(outcome), n |-> stp.n + 1]
    /\ UNCHANGED <<nextSess, ffmpeg_path, conn, worker, adm, own, sent, cleanups,
                   pub, removed, now, pipe, video, flv, ext, viewer, wire, lst>>

\* ---- the extractor on the bytes of the transcoder's stdout -----------------
\* b'\xff\xd8' and b'\xff\xd9'
SOI == <<255, 216>>

EOI == <<255, 217>>

\* buffer.find(marker, from): the least position at or after from where the
\* marker begins, positions counted from 1; 0 where find returns -1
RECURSIVE Find(_, _, _)
Find(buf, marker, from) ==
    IF from + 1 > Len(buf) THEN 0
    ELSE IF buf[from] = marker[1] /\ buf[from + 1] = marker[2] THEN from
    ELSE Find(buf, marker, from + 1)

\* a cut that leaves out the last byte of the end marker
CutFrameShort(buf, start, end) == SubSeq(buf, start, end)

\* frame = buffer[start:end + 2]
CutFrame(buf, start, end) == SubSeq(buf, start, end + 1)

\* an accumulation that keeps the last chunk only
AccumulateLast(buffer, chunk) == chunk

\* buffer += chunk
Accumulate(buffer, chunk) == buffer \o chunk

\* chunk = stdout.read(4096) returns n bytes; at end of file it returns b''
\* and the loop breaks
ExtractRead(n) ==
    /\ ext.pc = "read"
    /\ IF ext.stdout = <<>>
       THEN /\ n = 1
            /\ ext' = [ext EXCEPT !.pc = "done"]
       ELSE /\ n <= Len(ext.stdout)
            /\ ext' = [ext EXCEPT !.pc = "scan",
                                  !.stdout = SubSeq(@, n + 1, Len(@)),
                                  !.buffer = Accumulate(@, SubSeq(ext.stdout, 1, n)),
                                  !.split = @ \/ (/\ n < Len(ext.stdout)
                                                  /\ ext.stdout[n] = 255
                                                  /\ ext.stdout[n + 1] \in {216, 217})]
    /\ UNCHANGED <<streams, sess, proc, nextSess, ffmpeg_path, conn, worker, adm,
                   own, sent, cleanups, pub, removed, now, pipe, video, flv, viewer,
                   wire, lst, stp>>

\* one turn of the inner while True: a frame is cut from the buffer and
\* published, or the loop breaks and the thread reads again
ExtractScan ==
    /\ ext.pc = "scan"
    /\ LET start == Find(ext.buffer, SOI, 1)
           end == IF start = 0 THEN 0 ELSE Find(ext.buffer, EOI, start + 2)
       IN IF start = 0 \/ end = 0
          THEN ext' = [ext EXCEPT !.pc = "read"]
          ELSE LET frame == CutFrame(ext.buffer, start, end) IN
               ext' = [ext EXCEPT !.last_frame = frame,
                                  !.stream_frame_count = ext.frame_count,
                                  !.buffer = SubSeq(@, end + 2, Len(@)),
                                  !.frame_count = @ + 1,
                                  !.frames = Append(@, frame)]
    /\ UNCHANGED <<streams, sess, proc, nextSess, ffmpeg_path, conn, worker, adm,
                   own, sent, cleanups, pub, removed, now, pipe, video, flv, viewer,
                   wire, lst, stp>>

\* ---- the clock ---------------------------------------------------------------
\* a clock whose passing removes the sessions that went stale
TickReap(d) ==
    /\ now + d <= Epoch + MaxAge
    /\ now' = now + d
    /\ streams' = [k \in Keys |->
                     IF streams[k] # None /\ ~is_online(sess[streams[k]], now + d)
                     THEN None ELSE streams[k]]
    /\ UNCHANGED <<sess, proc, nextSess, ffmpeg_path, conn, worker, adm,
                   own, sent, cleanups, pub, removed, pipe, video, focus, wire>>

\* time passes; nothing in the server runs on a timer
Tick(d) ==
    /\ now + d <= Epoch + MaxAge
    /\ now' = now + d
    /\ UNCHANGED <<streams, sess, proc, nextSess, ffmpeg_path, conn, worker, adm,
                   own, sent, cleanups, pub, removed, pipe, video, focus, wire>>

\* ---- specifications -------------------------------------------------------
Outcomes == {"spawned", "popen_raises", "cmd_raises"}

\* video messages a publisher sends: RTMP timestamp and payload
Messages ==
    {[timestamp |-> 1, payload |-> <<>>],
     [timestamp |-> 0, payload |-> <<23>>],
     [timestamp |-> 2, payload |-> <<39, 1>>]}

\* the message the publishers of the lifecycle specifications send
OneMessage == {[timestamp |-> 1, payload |-> <<>>]}

Raises == {"ok", "raise_tag", "raise_flush"}

Next ==
    \/ \E c \in Conns : HandshakeOk(c)
    \/ \E c \in Conns : HandshakeFail(c)
    \/ \E c \in Conns, k \in Keys, o \in Outcomes : OnNsPublish(c, k, o)
    \/ \E c \in Conns, m \in OneMessage, o \in Raises : OnVideoMessage(c, m, o)
    \/ \E c \in Conns : CloseStream(c)
    \/ \E c \in Conns : Disconnect(c)
    \/ \E k \in Keys : GetFrame(k)
    \/ \E k \in Keys : GetStatus(k)
    \/ ListStreams
    \/ \E k \in Keys : RemoveStream(k)
    \/ Stop

\* the event loop alone: connections and the API calls made on it
Spec == Init /\ [][Next]_vars

WorkerNext ==
    \/ \E p \in SessIds : ProcExit(p)
    \/ \E n \in SessIds : WorkerStart(n)
    \/ \E n \in SessIds, got \in {"frame", "eof"} : WorkerRead(n, got)

NextWorker == Next \/ WorkerNext

\* the event loop, the transcoder processes and the extractor threads
SpecWorker == Init /\ [][NextWorker]_vars

ThreadNext ==
    \/ \E k \in Keys : AdmCheck(k)
    \/ AdmStop
    \/ AdmDel

NextThreads == Next \/ ThreadNext

\* the event loop and one caller of remove_stream on another thread
SpecThreads == Init /\ [][NextThreads]_vars

\* the publishers of one key, all their video messages, the transcoder exiting
VideoKeys == {"cam1"}

NextVideo ==
    \/ \E c \in Conns : HandshakeOk(c)
    \/ \E c \in Conns, k \in VideoKeys, o \in Outcomes : OnNsPublish(c, k, o)
    \/ \E c \in Conns, m \in Messages, o \in Raises : VideoMessage(c, m, o, MaxVideo)
    \/ \E c \in Conns : CloseStream(c)
    \/ \E p \in SessIds : ProcExit(p)
    \/ Stop

\* the video path: header, tags and timestamps written to the transcoder
SpecVideo == Init /\ [][NextVideo]_vars

NextStatus ==
    \/ \E c \in Conns : HandshakeOk(c)
    \/ \E c \in Conns, k \in VideoKeys, o \in Outcomes : OnNsPublish(c, k, o)
    \/ \E c \in Conns, m \in OneMessage, o \in Raises : VideoMessage(c, m, o, MaxVideo)
    \/ \E p \in SessIds : ProcExit(p)
    \/ \E d \in Delays : Tick(d)
    \/ \E k \in Keys : GetFrame(k)
    \/ \E k \in Keys : GetStatus(k)
    \/ ListStreams

\* the clock and the status queries
SpecStatus == Init /\ [][NextStatus]_vars

InitFlv ==
    /\ InitServer
    /\ stp = NoStop
    /\ lst = NoList
    /\ flv \in [pc : {"call"}, tag_type : TagTypes, timestamp : FlvTimestamps,
                 data : Payloads, tag : {<<>>}]
    /\ ext = NoExtractor
    /\ viewer = NoViewer

NextFlv == BuildFlvTag

\* _build_flv_tag applied to each of its arguments
SpecFlv == InitFlv /\ [][NextFlv]_vars

\* the bytes of the streams: the marker bytes and one other byte
Bytes == {255, 216, 217, 0}

BytesUpTo(n) == UNION {[1..m -> Bytes] : m \in 0..n}

\* a well-formed frame: start marker, bytes, end marker, and no end marker
\* before its end
Frames ==
    {f \in {SOI \o b \o EOI : b \in BytesUpTo(MaxBody)} : Find(f, EOI, 3) = Len(f) - 1}

\* noise: bytes ahead of the first start marker
Noise == {n \in BytesUpTo(MaxNoise) : Find(n, SOI, 1) = 0}

\* a frame the stream ends in the middle of
Tails == {<<>>, <<255>>, SOI, SOI \o <<0>>, SOI \o <<255>>, SOI \o <<0, 255>>}

RECURSIVE Concat(_)
Concat(fs) == IF fs = <<>> THEN <<>> ELSE Head(fs) \o Concat(Tail(fs))

FrameSeqs == UNION {[1..k -> Frames] : k \in 0..MaxK}

\* the transcoder's output: noise, K frames, an incomplete frame; or any bytes
InitExtract ==
    /\ InitServer
    /\ stp = NoStop
    /\ lst = NoList
    /\ flv = NoCall
    /\ viewer = NoViewer
    /\ \/ \E n \in Noise, fs \in FrameSeqs, t \in Tails :
             ext = [NoExtractor EXCEPT !.pc = "read", !.shaped = TRUE, !.expect = fs,
                                       !.stdout = n \o Concat(fs) \o t]
       \/ \E b \in BytesUpTo(MaxBytes) :
             ext = [NoExtractor EXCEPT !.pc = "read", !.stdout = b]

NextExtract ==
    \/ \E n \in 1..MaxRead : ExtractRead(n)
    \/ ExtractScan

\* _read_ffmpeg_output on each byte stream, split into reads in every way
SpecExtract == InitExtract /\ [][NextExtract]_vars

\* the connection that is followed message by message, or whose stream is viewed
ViewConns == {"c1"}

\* the generator yields to the event loop in its sleep only
OnLoop == viewer.pc \in {"none", "poll", "done"}

NextMjpeg ==
    \/ OnLoop /\ \E c \in ViewConns : HandshakeOk(c)
    \/ OnLoop /\ \E c \in ViewConns, k \in VideoKeys, o \in Outcomes : OnNsPublish(c, k, o)
    \/ OnLoop /\ \E k \in VideoKeys : RemoveStream(k)
    \/ OnLoop /\ \E k \in VideoKeys : ViewerOpen(k)
    \/ \E p \in SessIds : ProcExit(p)
    \/ \E n \in SessIds : WorkerStart(n)
    \/ \E n \in SessIds, got \in {"frame", "eof"} : WorkerFrames(n, got, MaxViewFrames)
    \/ ViewerPoll
    \/ ViewerCompare
    \/ ViewerAssign
    \/ ViewerYield

\* one viewer of generate_mjpeg, the event loop and the extractor threads
SpecMjpeg == Init /\ [][NextMjpeg]_vars

\* the messages a publisher sends through the dispatcher
DispatchMessages ==
    {Msg("NCConnect"), Msg("NCCreateStream"),
     [Msg("NSPublish") EXCEPT !.publishing_name = "cam1"],
     [Msg("VideoMessage") EXCEPT !.timestamp = 1],
     Msg("AudioMessage"), Msg("MetaDataMessage"),
     [Msg("SetChunkSize") EXCEPT !.chunk_size = 4096],
     Msg("WindowAcknowledgementSize"), Msg("NSCloseStream"), Msg("NSDeleteStream"),
     Command("releaseStream", <<2>>, 3), Command("FCPublish", <<3>>, 4),
     Command("FCPublish", <<>>, 3), Command("FCUnpublish", <<5>>, 3),
     Msg("Chunk")}

\* the messages of the other publishers
PublishMessages == {m \in DispatchMessages : m.kind = "NSPublish"}

\* chunks on_unknown_message writes back in the dispatcher's specification
MaxOut == 1

DispatchOutcomes == {"ok", "drain_raises"}

NextDispatch ==
    \/ \E c \in Conns, ok \in BOOLEAN : Handshake(c, ok)
    \/ \E c \in ViewConns, m \in DispatchMessages, spawn \in Outcomes, o \in DispatchOutcomes :
          HandleMessage(c, m, spawn, o, MaxOut)
    \/ \E c \in Conns \ ViewConns, m \in PublishMessages, spawn \in Outcomes :
          HandleMessage(c, m, spawn, "ok", MaxOut)
    \/ \E c \in Conns : Disconnect(c)

\* the connections from the handshake through the dispatcher
SpecDispatch == Init /\ [][NextDispatch]_vars

\* list_streams runs on the event loop and yields to no other task
ListOnLoop == lst.pc \in {"none", "done"}

NextList ==
    \/ ListOnLoop /\ \E c \in Conns : HandshakeOk(c)
    \/ ListOnLoop /\ \E c \in Conns, k \in Keys, o \in Outcomes : OnNsPublish(c, k, o)
    \/ ListOnLoop /\ \E c \in Conns : CloseStream(c)
    \/ ListOnLoop /\ \E c \in Conns : Disconnect(c)
    \/ \E k \in Keys : AdmCheck(k)
    \/ AdmStop
    \/ AdmDel
    \/ ListBegin
    \/ ListNext
    \/ ListGet

\* one call of list_streams on the event loop, the connections, and one caller
\* of remove_stream on another thread
SpecList == Init /\ [][NextList]_vars

\* calls of _stop_ffmpeg followed in its specification
MaxStops == 2

StopOutcomeSet == {"none", "exits", "timeout", "terminate_raises"}

NextStop ==
    \/ \E c \in Conns : HandshakeOk(c)
    \/ \E c \in Conns, k \in Keys, o \in Outcomes : OnNsPublish(c, k, o)
    \/ \E p \in SessIds : ProcExit(p)
    \/ \E k \in Keys, o \in StopOutcomeSet : StopCall(k, o, MaxStops)

\* sessions published, transcoders exiting, and _stop_ffmpeg called on a key
SpecStop == Init /\ [][NextStop]_vars

NextLate ==
    \/ \E c \in Conns : HandshakeOk(c)
    \/ \E c \in Conns, k \in VideoKeys, o \in Outcomes : OnNsPublish(c, k, o)
    \/ \E c \in Conns : CloseStream(c)
    \/ \E c \in Conns : Disconnect(c)
    \/ \E k \in VideoKeys : RemoveStream(k)
    \/ \E p \in SessIds : ProcExit(p)
    \/ \E n \in SessIds : WorkerStart(n)
    \/ \E n \in SessIds, got \in {"frame", "eof"} : WorkerRead(n, got)

\* a started thread is scheduled, and a read on a pipe whose writer is gone
\* returns
FairWorkers ==
    \A n \in SessIds : WF_vars(WorkerStart(n)) /\ WF_vars(WorkerRead(n, "eof"))

\* the publishers of one key and the extractor threads, each thread running
\* whenever it can
SpecLate == Init /\ [][NextLate]_vars /\ FairWorkers

NextRemoved ==
    \/ \E c \in Conns : HandshakeOk(c)
    \/ \E c \in Conns, k \in Keys, o \in Outcomes : OnNsPublish(c, k, o)
    \/ \E c \in Conns, m \in OneMessage, o \in Raises : OnVideoMessage(c, m, o)
    \/ \E k \in Keys : RemoveStream(k)
    \/ \E p \in SessIds : ProcExit(p)

\* publishers that stay connected, their video, and remove_stream: a session
\* leaves the registry by remove_stream or by a publish over its key
SpecRemoved == Init /\ [][NextRemoved]_vars

\* the event loop resumes the generator after its sleep, and its consumer
\* takes each record it yields
FairViewer ==
    /\ WF_vars(ViewerPoll) /\ WF_vars(ViewerCompare)
    /\ WF_vars(ViewerAssign) /\ WF_vars(ViewerYield)

\* the viewer, consumed to its end
SpecView == Init /\ [][NextMjpeg]_vars /\ FairViewer

\* ---- properties ------------------------------------------------------------
Registered(s) == \E k \in Keys : streams[k] = s

\* C1: at most one session, and at most one transcoder process, is alive per
\* stream key: no two processes spawned for sessions of one key run at once
C1_OneLiveSessionPerKey ==
    \A s1, s2 \in SessIds :
        (s1 # s2 /\ proc[s1] = "running" /\ proc[s2] = "running")
            => sess[s1].stream_key # sess[s2].stream_key

\* C2: no transcoder process outlives its session: every running process is
\* the ffmpeg_process of a session present in the registry
C2_NoProcessOutlivesSession ==
    \A s \in SessIds :
        proc[s] = "running" => Registered(s) /\ sess[s].ffmpeg_process = s

\* C3: a connection's _cleanup and a remove_stream of the same key that run
\* concurrently both complete without failing, and afterwards the process of
\* the session is not running and the key is absent
C3_ConcurrentTeardown ==
    (adm.pc = "done" /\ adm.raced)
        => /\ ~adm.err
           /\ proc[adm.target] # "running"
           /\ streams[adm.key] # adm.target

\* C4: teardown is idempotent: a _cleanup that runs again on a connection that
\* has not published since its last _cleanup leaves the registry, every session
\* and every process as they are, and _stop_ffmpeg applied a second time to a
\* key changes nothing the first application left
C4_TeardownIdempotent ==
    [][ /\ \A c \in Conns :
              (cleanups[c] > 0 /\ (CloseStream(c) \/ Disconnect(c)))
                  => UNCHANGED <<streams, sess, proc>>
        /\ \A k \in Keys :
              StopFfmpeg(StopFfmpeg(Heap, k), k) = StopFfmpeg(Heap, k) ]_vars

\* a connection ran _cleanup twice in a row while another session is
\* registered with its transcoder running
C4_Witness ==
    \E c \in Conns, k \in Keys :
        /\ cleanups[c] = 2
        /\ streams[k] # None
        /\ proc[streams[k]] = "running"

\* C5: remove_stream and connection cleanup delete a key only after the
\* transcoder of the session registered under it has been terminated: whenever
\* a step takes a key out of the registry, that session's process is not
\* running and its handle is cleared
C5_StopBeforeDelete ==
    [][ \A k \in Keys :
            (streams[k] # None /\ streams'[k] = None)
                => /\ proc'[streams[k]] # "running"
                   /\ sess'[streams[k]].ffmpeg_process = None
                   /\ ~sess'[streams[k]].running ]_vars

\* remove_stream has returned True for a session whose transcoder had been
\* spawned, and that transcoder is dead
C5_Witness ==
    \E k \in Keys : removed[k] # None /\ proc[removed[k]] = "dead"

\* C6: for a key that is not in the registry remove_stream returns False and
\* leaves the registry as it is, also when repeated, and get_status and
\* get_frame return None
C6_UnknownKeyIsAValue ==
    \A k \in Keys :
        streams[k] = None
            => /\ remove_stream(Heap, k).ret = FALSE
               /\ remove_stream(Heap, k).heap = Heap
               /\ remove_stream(remove_stream(Heap, k).heap, k).ret = FALSE
               /\ get_status(k) = Absent
               /\ get_frame(k) = Absent

\* a key is unknown after its removal while another key is registered with
\* packets counted
C6_Witness ==
    \E k, j \in Keys :
        /\ removed[k] # None
        /\ streams[k] = None
        /\ streams[j] # None
        /\ sess[streams[j]].packet_count > 0

\* C7: while the session a connection published has not been torn down,
\* list_streams has exactly one entry for its key and that entry's
\* packet_count is the number of video messages the connection has delivered
C7_PacketCountIsDelivered ==
    \A c \in Conns :
        own[c] # None
            => LET k == conn[c].stream_key IN
               /\ Cardinality({e \in list_streams : e[1].stream_key = k}) = 1
               /\ get_status(k)[1].packet_count = sent[c]

\* C8: after remove_stream(k) has returned True, and until k is published
\* again, the removed session's process is not running and get_frame(k) and
\* get_status(k) return None
C8_RemovedStaysAbsent ==
    \A k \in Keys :
        removed[k] # None
            => /\ proc[removed[k]] # "running"
               /\ streams[k] = None
               /\ get_frame(k) = Absent
               /\ get_status(k) = Absent

\* the removed session holds a frame, and its publishing connection is still
\* open on the removed key
C8_Witness ==
    \E k \in Keys, c \in Conns :
        /\ removed[k] # None
        /\ pub[removed[k]] = c
        /\ conn[c].st = "open"
        /\ conn[c].stream_key = k
        /\ sess[removed[k]].last_frame # None

\* C9: once a connection handler has ended, no session this connection
\* published is in the registry or has its transcoder running
C9_EndedConnectionLeavesNothing ==
    \A c \in Conns, s \in SessIds :
        (conn[c].st = "closed" /\ pub[s] = c)
            => ~Registered(s) /\ proc[s] # "running"

\* C10: a publish whose transcoder cannot be spawned leaves the session
\* registered, without frame and without process, and the connection served
C10_SpawnFailureKeepsSession ==
    [][ \A c \in Conns, k \in Keys :
            (OnNsPublish(c, k, "popen_raises") \/ OnNsPublish(c, k, "cmd_raises"))
                => /\ streams'[k] = nextSess
                   /\ sess'[nextSess].last_frame = None
                   /\ sess'[nextSess].ffmpeg_process = None
                   /\ conn'[c].st = "open"
                   /\ conn'[c].stream_key = k ]_vars

\* the video messages of session s whose tag its stdin accepted
Written(s) == SelectSeq(video[s], LAMBDA e : e.wrote)

\* C11: a write to the transcoder that fails while a video message is handled
\* is swallowed: registry, connection, processes and the session's process
\* handle stay as they were, the message is counted in packet_count and
\* last_update, and the next video message is handled like any other
C11_FailedWriteSwallowed ==
    [][ \A c \in Conns, m \in Messages, o \in Raises \ {"ok"} :
            VideoMessage(c, m, o, MaxVideo)
                => LET s == streams[conn[c].stream_key] IN
                   /\ streams' = streams
                   /\ conn' = conn
                   /\ proc' = proc
                   /\ sess'[s].ffmpeg_process = sess[s].ffmpeg_process
                   /\ sess'[s].running = sess[s].running
                   /\ sess'[s].packet_count = sess[s].packet_count + 1
                   /\ sess'[s].last_update = now ]_vars

\* a session counted a message whose write failed and, later on the clock,
\* another message
C11_Witness ==
    \E s \in SessIds :
        /\ Len(video[s]) >= 2
        /\ ~video[s][1].wrote
        /\ sess[s].ffmpeg_process # None
        /\ sess[s].packet_count = Len(video[s])
        /\ sess[s].last_update > Epoch

\* C12: what a session's transcoder is written is the container header once,
\* ahead of every tag, then one video tag per video message written, in the
\* order of arrival; the header never occurs a second time
C12_HeaderOnceThenTags ==
    \A s \in SessIds :
        LET w == pipe[s]
            ms == Written(s)
        IN /\ Len(w) \in {0, 1 + Len(ms)}
           /\ Len(ms) > 0 => Len(w) = 1 + Len(ms)
           /\ \A i \in 1..Len(w) : (w[i] = _build_flv_header) <=> (i = 1)
           /\ \A i \in 2..Len(w) :
                 w[i] = _build_flv_tag(9, RelativeTs(ms[i - 1].timestamp,
                                                     sess[s].base_timestamp),
                                       ms[i - 1].payload)

\* a transcoder was written the header and the tags of three messages with
\* three payloads
C12_Witness ==
    \E s \in SessIds :
        /\ Len(pipe[s]) = 4
        /\ Len(video[s]) = 3
        /\ \A i, j \in 1..3 : i # j => video[s][i].payload # video[s][j].payload

\* the timestamp an FLV tag carries: bytes 5..7, extended by byte 8
TagTimestamp(tag) == tag[8] * 16777216 + tag[5] * 65536 + tag[6] * 256 + tag[7]

\* C13: the timestamp of the first video message a session observed is its
\* baseline: the tag of a message with timestamp t carries max(0, t - baseline),
\* the tag of the first message carries 0 and no tag carries a negative timestamp
C13_BaselineTimestamps ==
    \A s \in SessIds :
        LET w == pipe[s]
            ms == Written(s)
        IN Len(w) >= 2 =>
            LET baseline == video[s][1].timestamp IN
            /\ video[s][1].wrote => TagTimestamp(w[2]) = 0
            /\ \A i \in 2..Len(w) :
                  LET t == ms[i - 1].timestamp IN
                  /\ TagTimestamp(w[i]) = (IF t - baseline > 0 THEN t - baseline ELSE 0)
                  /\ TagTimestamp(w[i]) >= 0

\* a tag was written for a message whose timestamp is below the baseline, and
\* one for a message above it
C13_Witness ==
    \E s \in SessIds :
        /\ Len(pipe[s]) = 4
        /\ video[s][1].wrote
        /\ Written(s)[2].timestamp < video[s][1].timestamp
        /\ Written(s)[3].timestamp > video[s][1].timestamp

\* the number bytes b[i..j] spell, most significant first
RECURSIVE BigEndian(_, _, _)
BigEndian(b, i, j) == IF j < i THEN 0 ELSE BigEndian(b, i, j - 1) * 256 + b[j]

\* C14: for a payload of L bytes and a timestamp T below 2^32 _build_flv_tag
\* returns 11 + L + 4 bytes: the type, L in three bytes, the low 24 bits of T
\* and then its high 8 bits, three zero bytes, the payload, and 11 + L in four
\* bytes, most significant byte first
C14_FlvTagLayout ==
    flv.pc = "done" =>
        LET tag == flv.tag
            L == Len(flv.data)
            T == flv.timestamp
        IN /\ Len(tag) = 11 + L + 4
           /\ \A i \in {1, 2, 3, 4, 5, 6, 7, 8, 9, 10, 11,
                        12 + L, 13 + L, 14 + L, 15 + L} : tag[i] \in 0..255
           /\ tag[1] = flv.tag_type
           /\ BigEndian(tag, 2, 4) = L
           /\ BigEndian(tag, 5, 7) = T % 16777216
           /\ tag[8] = T \div 16777216
           /\ SubSeq(tag, 9, 11) = <<0, 0, 0>>
           /\ SubSeq(tag, 12, 11 + L) = flv.data
           /\ BigEndian(tag, 12 + L, 15 + L) = 11 + L

\* a tag was built for a payload that needs the upper bytes of the length
\* field and a timestamp that needs the extension byte
C14_Witness ==
    /\ flv.pc = "done"
    /\ Len(flv.data) >= 65536
    /\ flv.timestamp >= 16777216
    /\ Len(flv.tag) > 15

\* s is the sequence p extended
IsPrefix(p, s) == Len(p) <= Len(s) /\ SubSeq(s, 1, Len(p)) = p

\* C15: of a stdout made of noise, K well-formed frames and an incomplete
\* frame the extractor publishes those K frames, in order, each with both its
\* markers, and nothing for the noise or the incomplete frame, however the
\* bytes are split into reads
C15_ExtractsExactlyTheFrames ==
    ext.shaped =>
        /\ IsPrefix(ext.frames, ext.expect)
        /\ ext.pc = "done" => ext.frames = ext.expect
        /\ ext.frame_count = Len(ext.frames)

\* two frames behind noise and ahead of an incomplete frame were published
\* from reads of which one ended inside a marker
C15_Witness ==
    /\ ext.shaped
    /\ ext.pc = "done"
    /\ ext.split
    /\ Len(ext.frames) = 2
    /\ ext.frames[1] # ext.frames[2]
    /\ Len(ext.buffer) >= 2
    /\ ext.frames = ext.expect

\* C16: the latest frame of a session is absent or one complete frame, from
\* its start marker to its end marker, in every state a reader can observe
C16_LatestFrameComplete ==
    LET f == ext.last_frame IN
    f # <<>> =>
        /\ Len(f) >= 4
        /\ SubSeq(f, 1, 2) = SOI
        /\ SubSeq(f, Len(f) - 1, Len(f)) = EOI
        /\ Find(f, EOI, 3) = Len(f) - 1
        /\ f = ext.frames[Len(ext.frames)]

\* a frame is published while bytes of the next one are in the buffer
C16_Witness ==
    /\ ext.last_frame # <<>>
    /\ ext.pc = "read"
    /\ ext.buffer # <<>>
    /\ ~ext.shaped

\* C17: is_online is derived when the status is queried: get_status and
\* list_streams report it true exactly when now - last_update is below the
\* staleness threshold, and the session stores no such field
C17_OnlineIsDerived ==
    \A k \in Keys :
        streams[k] # None =>
            LET fresh == now - sess[streams[k]].last_update < StaleAfter IN
            /\ get_status(k)[1].is_online = fresh
            /\ \A e \in list_streams : e[1].stream_key = k => e[1].is_online = fresh
            /\ "is_online" \notin DOMAIN sess[streams[k]]

\* a session that counted a message is queried exactly at the threshold, where
\* it is reported offline
C17_Witness ==
    \E k \in Keys :
        /\ streams[k] # None
        /\ sess[streams[k]].packet_count > 0
        /\ now - sess[streams[k]].last_update = StaleAfter
        /\ ~get_status(k)[1].is_online

\* C18: staleness removes nothing: while time passes, and when get_status,
\* list_streams or get_frame is called, the registry, every session and every
\* process stay as they are, stale sessions included
C18_StalenessRemovesNothing ==
    [][ ( \/ \E d \in Delays : Tick(d)
          \/ \E k \in Keys : GetFrame(k) \/ GetStatus(k)
          \/ ListStreams )
            => UNCHANGED <<streams, sess, proc, pipe>> ]_vars

\* a session that went stale is registered with its counter and its
\* transcoder running
C18_Witness ==
    \E k \in Keys :
        /\ streams[k] # None
        /\ now - sess[streams[k]].last_update > StaleAfter
        /\ ~get_status(k)[1].is_online
        /\ sess[streams[k]].packet_count > 0
        /\ proc[streams[k]] = "running"

\* C19: no two consecutive records of the viewer carry the same frame: a
\* record is emitted only for a frame that differs from the frame of the
\* record before it
C19_NoRepeatedRecord ==
    \A i \in 1..(Len(viewer.records) - 1) : viewer.records[i] # viewer.records[i + 1]

\* C20: generate_mjpeg ends at the first poll that finds its key absent, and
\* at the poll that makes the count of consecutive polls without a frame
\* exceed 200; a poll that finds a frame resets the count, and no other poll
\* ends the generator
C20_EndsAfterBoundedPolls ==
    [][ ViewerPoll =>
            LET s == streams[viewer.key]
                absent == s = None
                frameless == ~absent /\ sess[s].last_frame = None
            IN /\ (viewer'.pc = "done")
                    <=> (absent \/ (frameless /\ viewer.no_frame_count + 1 > NoFrameLimit))
               /\ frameless => viewer'.no_frame_count = viewer.no_frame_count + 1
               /\ (~absent /\ ~frameless) => viewer'.no_frame_count = 0
               /\ viewer.no_frame_count <= NoFrameLimit ]_vars

\* the generator ended on a registered session that never had a frame, at
\* the poll after the 200th
C20_Witness ==
    /\ viewer.pc = "done"
    /\ viewer.no_frame_count = NoFrameLimit + 1
    /\ viewer.records = <<>>
    /\ streams[viewer.key] # None
    /\ sess[streams[viewer.key]].last_frame = None

\* C21: on every connection nothing is dispatched and no session is created
\* before the handshake has completed, and a handshake that fails closes the
\* connection with the registry, the sessions and the transcoders as they were
C21_HandshakeFirst ==
    [][\A c \in Conns :
          /\ wire'[c].handshake # "ok" =>
                /\ conn'[c].stream_key = NoKey
                /\ wire'[c].last = NoMessage
                /\ wire'[c].out = <<>>
                /\ wire'[c].reader_chunk_size = None
                /\ own'[c] = None /\ sent'[c] = 0
                /\ \A s \in SessIds : pub'[s] # c
          /\ wire[c].handshake = "pending" /\ wire'[c].handshake = "failed" =>
                /\ conn'[c].st = "closed"
                /\ streams' = streams /\ sess' = sess /\ proc' = proc
                /\ nextSess' = nextSess /\ worker' = worker]_vars

\* a handshake has failed while another connection's session is registered
\* and its transcoder runs
C21_Witness ==
    \E c \in Conns, k \in Keys :
        /\ wire[c].handshake = "failed" /\ conn[c].st = "closed"
        /\ streams[k] # None /\ proc[streams[k]] = "running"
        /\ pub[streams[k]] # c

\* C22: a step that handles a releaseStream or FCPublish command writes exactly
\* one chunk back, a "_result" on the command's chunk stream that carries the
\* command's transaction id, and constructs no session
C22_PrepCommandAcknowledged ==
    [][\A c \in Conns :
          LET m == wire'[c].last IN
          (/\ wire'[c] # wire[c]
           /\ m.kind = "Command" /\ m.command_name \in {"releaseStream", "FCPublish"})
          => /\ Len(wire'[c].out) = Len(wire[c].out) + 1
             /\ SubSeq(wire'[c].out, 1, Len(wire[c].out)) = wire[c].out
             /\ LET r == wire'[c].out[Len(wire'[c].out)] IN
                /\ r.payload[1] = "_result"
                /\ r.chunk_id = m.chunk_id
                /\ m.tid # <<>> => r.payload[2] = m.tid[1]
             /\ nextSess' = nextSess /\ pub' = pub
             /\ \A k \in Keys : streams[k] = None => streams'[k] = None]_vars

\* FCPublish with transaction id 3 on chunk stream 4 has been acknowledged on a
\* connection that is still open
C22_Witness ==
    \E c \in Conns :
        /\ conn[c].st = "open"
        /\ wire[c].last = Command("FCPublish", <<3>>, 4)
        /\ wire[c].out = <<_create_result_response(4, 3)>>

\* the messages C23 is about: connect, create-stream, audio, metadata, window
\* acknowledgement, and the commands that are neither known nor preparatory
QuietMessages ==
    {m \in DispatchMessages :
        \/ m.kind \in {"NCConnect", "NCCreateStream", "AudioMessage", "MetaDataMessage",
                       "WindowAcknowledgementSize"}
        \/ m.kind = "Command" /\ m.command_name \notin {"releaseStream", "FCPublish"}}

\* C23: a step that handles a message without session effect leaves the
\* connection open and changes neither the registry, nor a session's counters,
\* latest frame or process, nor the connection's stream key; handling an
\* unrecognized command writes no chunk back
C23_QuietMessagesChangeNothing ==
    [][\A c \in Conns, m \in QuietMessages :
          (\/ HandleMessage(c, m, "spawned", "ok", MaxOut)
           \/ wire'[c] # wire[c] /\ wire'[c].last = m)
          => /\ conn' = conn /\ conn[c].st = "open"
             /\ streams' = streams /\ sess' = sess /\ proc' = proc
             /\ nextSess' = nextSess /\ worker' = worker /\ pipe' = pipe
             /\ wire'[c].reader_chunk_size = wire[c].reader_chunk_size
             /\ m.kind = "Command" => wire'[c].out = wire[c].out]_vars

\* a connection whose session is registered, has counted a packet and has its
\* transcoder running has handled an unrecognized command
C23_Witness ==
    \E c \in Conns :
        /\ wire[c].last = Command("FCUnpublish", <<5>>, 3)
        /\ conn[c].st = "open" /\ conn[c].stream_key = "cam1"
        /\ streams["cam1"] # None /\ own[c] = streams["cam1"]
        /\ sess[streams["cam1"]].packet_count = 1
        /\ proc[streams["cam1"]] = "running"

\* C24: a call of list_streams that runs while sessions are published, closed,
\* disconnected or removed does not fail, and the list it returns holds one
\* complete status record for each key registered at the call and no absent entry
C24_ListConsistent ==
    lst.pc = "done" =>
        /\ ~lst.raised
        /\ Len(lst.ret) = Cardinality(lst.at)
        /\ \A i \in DOMAIN lst.ret : lst.ret[i] # Absent
        /\ \A k \in lst.at : \E i \in DOMAIN lst.ret : lst.ret[i][1].stream_key = k

\* C25: a connection that is Publishing (its controller holds a stream key)
\* has its publish commands rejected: no step constructs a session for it, and
\* its session, key and transcoder stay as they were
C25_PublishWhilePublishingRejected ==
    [][\A c \in Conns :
          conn[c].st = "open" /\ conn[c].stream_key # NoKey =>
              \/ nextSess' = nextSess
              \/ pub'[nextSess] # c]_vars

\* C28: a call of _stop_ffmpeg on a session with a process first calls
\* terminate and then waits; it calls kill, last, exactly when the wait timed
\* out or terminate raised; when it returns the session's running flag is false,
\* its process handle is cleared and the process no longer runs
C28_GracefulThenKill ==
    [][stp'.n # stp.n /\ stp'.target # None =>
          LET s == stp'.target
              calls == stp'.calls
              had == sess[s].ffmpeg_process # None
              killed == \E i \in DOMAIN calls : calls[i] = "kill"
          IN /\ ~sess'[s].running
             /\ sess'[s].ffmpeg_process = None
             /\ had =>
                   /\ calls[1] = "terminate"
                   /\ stp'.outcome # "terminate_raises" => calls[2] = "wait"
                   /\ killed <=> stp'.outcome \in {"timeout", "terminate_raises"}
                   /\ killed => calls[Len(calls)] = "kill" /\ calls[Len(calls) - 1] # "kill"
                   /\ proc'[sess[s].ffmpeg_process] # "running"
             /\ ~had => calls = <<>>]_vars

\* the transcoder of a registered session did not exit within the interval
\* and was killed, after another session had been stopped
C28_Witness ==
    /\ stp.n = 2 /\ stp.outcome = "timeout" /\ stp.target # None
    /\ stp.calls = <<"terminate", "wait", "kill">>
    /\ proc[stp.target] = "dead"
    /\ \E s \in SessIds : s # stp.target /\ proc[s] = "dead" /\ ~sess[s].running

\* C29: once the extractor of a registered session has published K frames,
\* K >= 1, get_status reports frame_count = K for the session
C29_FrameCountIsFramesPublished ==
    \A n \in SessIds :
        (worker[n].frame_count > 0 /\ streams[worker[n].key] = worker[n].stream) =>
            get_status(worker[n].key)[1].frame_count = worker[n].frame_count

\* C30: a close-stream or delete-stream command on a connection that holds a
\* key leaves the connection open, removes the key from the registry and leaves
\* the transcoder of the connection's session stopped; a video message on a
\* connection that holds no key changes nothing and registers nothing
C30_CloseTearsDownKeepsOpen ==
    [][\A c \in Conns :
          /\ (/\ conn[c].st = "open" /\ conn'[c].st = "open"
              /\ conn[c].stream_key # NoKey /\ conn'[c].stream_key = NoKey)
             => /\ streams'[conn[c].stream_key] = None
                /\ own[c] # None => proc'[own[c]] # "running"
          /\ \A m \in OneMessage :
                (conn[c].stream_key = NoKey /\ OnVideoMessage(c, m, "ok"))
                => UNCHANGED <<streams, sess, proc, conn, pipe, nextSess>>]_vars

\* the thread started for session n has not returned, and the output of the
\* session's transcoder is closed or _stop_ffmpeg has run on the session
WorkerDue(n) ==
    /\ worker[n].pc \in {"start", "read"}
    /\ proc[n] # "running" \/ ~sess[n].running

\* C31: the extractor thread of a session returns once the session's transcoder
\* has closed its output or the session has been stopped, and a thread that
\* has returned stays returned and assigns no session's frame or frame count
C31_WorkerTerminates ==
    \A n \in SessIds : WorkerDue(n) ~> worker[n].pc = "done"

\* C32: a thread is started for each spawned transcoder and for nothing else,
\* and the session whose process it reads and whose frames it assigns is the
\* session it was started for
C32_WorkerOwnsItsSession ==
    \A n \in SessIds :
        /\ worker[n].pc # "none" <=> proc[n] # "none"
        /\ worker[n].stream \in {None, n}

\* C33: the _cleanup of a connection (on its disconnect or its close-stream or
\* delete-stream command) leaves every session that another connection's
\* publish created registered if it was registered and its transcoder running
\* if it was running
C33_TeardownSparesOthers ==
    [][\A c \in Conns :
          (conn[c].stream_key # NoKey /\ conn'[c].stream_key = NoKey) =>
              \A s \in SessIds :
                  (pub[s] # NoConn /\ pub[s] # c) =>
                      /\ Registered(s) => \E k \in Keys : streams'[k] = s
                      /\ proc[s] = "running" => proc'[s] = "running"]_vars

\* C34: a video message of a connection changes the counters, the timestamp
\* and the transcoder input of no session that another connection's publish
\* created
C34_VideoCountsIntoOwnSession ==
    [][\A c \in Conns, m \in OneMessage, o \in Raises :
          OnVideoMessage(c, m, o) =>
              \A s \in SessIds :
                  (pub[s] # NoConn /\ pub[s] # c) =>
                      /\ sess'[s] = sess[s]
                      /\ pipe'[s] = pipe[s]]_vars

\* C35: a video message on a connection that holds no key, or whose session
\* remove_stream has deleted (own is reset while the key is kept), leaves the
\* registry, every session and every transcoder input as they were and the
\* connection open
C35_VideoWithoutSessionDropped ==
    [][\A c \in Conns, m \in OneMessage, o \in Raises :
          (/\ conn[c].stream_key = NoKey \/ own[c] = None
           /\ OnVideoMessage(c, m, o))
          => /\ UNCHANGED <<streams, sess, proc, pipe, nextSess>>
             /\ conn'[c].st = "open"]_vars

\* stream = _streams.get(stream_key) of a started viewer finds nothing
ViewerKeyAbsent ==
    viewer.pc # "none" /\ streams[viewer.key] = None

\* C36: a generate_mjpeg(k) that finds k absent at a poll ends there, and once
\* k is absent from the registry the generator has ended or k is registered
\* again, whatever it emitted before
C36_ViewerEndsAfterRemoval ==
    /\ [][(viewer.pc = "poll" /\ viewer' # viewer /\ ViewerKeyAbsent)
            => viewer'.pc = "done"]_vars
    /\ ViewerKeyAbsent ~> (viewer.pc = "done" \/ ~ViewerKeyAbsent)

\* a viewer that had emitted a frame ended at the poll after remove_stream
\* had removed its key
C36_Witness ==
    /\ viewer.pc = "done" /\ viewer.stream = None
    /\ Len(viewer.records) >= 1
    /\ streams[viewer.key] = None /\ removed[viewer.key] # None

\* the session registered under k is stopped: no running flag, no process
\* handle, and its transcoder is not running
Stopped(H, k) ==
    LET s == H.streams[k] IN
    /\ ~H.sess[s].running
    /\ H.sess[s].ffmpeg_process = None
    /\ H.proc[s] # "running"

\* the sessions stop() has left registered and stopped
StoppedKeys == {k \in Keys : streams[k] # None /\ Stopped(Heap, k)}

\* C37: stop() leaves the registry's keys and every session's counters as they
\* were and every registered session stopped; a disconnect, a closeStream or
\* a remove_stream of a stopped session calls nothing on a process, removes
\* the key and changes no process
C37_StopThenCleanup ==
    /\ [][Stop =>
            /\ streams' = streams
            /\ \A n \in SessIds :
                  /\ sess'[n].packet_count = sess[n].packet_count
                  /\ sess'[n].frame_count = sess[n].frame_count
            /\ \A k \in Keys : streams[k] # None =>
                  /\ Stopped(Heap, k)'
                  /\ StopOutcomes(Heap, k)' = {"none"}]_vars
    /\ [][\A c \in Conns :
            ((CloseStream(c) \/ Disconnect(c)) /\ conn[c].stream_key \in StoppedKeys)
              => /\ proc' = proc
                 /\ StopOutcomes(Heap, conn[c].stream_key) = {"none"}
                 /\ streams' = [streams EXCEPT ![conn[c].stream_key] = None]]_vars
    /\ [][\A k \in Keys :
            (RemoveStream(k) /\ k \in StoppedKeys)
              => /\ proc' = proc
                 /\ StopOutcomes(Heap, k) = {"none"}
                 /\ remove_stream(Heap, k).ret
                 /\ streams' = [streams EXCEPT ![k] = None]]_vars

\* stop() has stopped two registered sessions, one of which had counted a
\* packet, and the connection of one of them is still open
C37_Witness ==
    /\ \A k \in Keys : streams[k] # None /\ Stopped(Heap, k)
                          /\ proc[streams[k]] = "dead"
    /\ \E k \in Keys : sess[streams[k]].packet_count >= 1
    /\ \E c \in Conns : conn[c].st = "open" /\ conn[c].stream_key \in Keys

====
